---------------------------- MODULE Spec2Model ----------------------------
(***************************************************************************)
(* Model of src/app.py: a Streamlit exam portal.  The spreadsheet          *)
(* questions.xlsx is the variable df (fixed during a session); the session *)
(* is the dictionary st.session_state plus the value of the radio widget   *)
(* of the question on screen.  One action is one user event together with  *)
(* the script run it triggers and every st.rerun() that run asks for; the  *)
(* variables page, exception, warning, correct and marks hold what the     *)
(* last run put on screen (an uncaught exception ends a run where it is    *)
(* raised, so the widgets below that point are not drawn).                 *)
(*                                                                         *)
(* Text is a sequence of one-character strings, so that strip, lower,      *)
(* upper, startswith, re.sub and ord are computed, not assumed.  Python    *)
(* indices are kept 0-based (current_question, the keys of user_answers);  *)
(* TLA+ sequences are 1-based, hence the "+ 1" where a list is indexed.    *)
(*                                                                         *)
(* Left out: the question and description columns, the percentage, the     *)
(* layout and the style sheet; none of them is read by the logic.          *)
(***************************************************************************)
EXTENDS Integers, Sequences, FiniteSets, TLC

VARIABLES df, session_state, radio, page, exception, warning, correct, marks

vars == <<df, session_state, radio, page, exception, warning, correct, marks>>

---------------------------------------------------------------------------
(* Python values *)

\* None where the other values are section or module names
None == "None"
\* None where the other values are texts (a radio with nothing selected,
\* user_answers.get(i) of an unanswered question)
NoneStr == <<"None">>
\* an empty spreadsheet cell, as pandas reads it
NaN == <<"NaN">>

\* str.isspace for the characters of the model
IsSpace(c) == c = " "

RECURSIVE lstrip(_)
lstrip(s) == IF s # <<>> /\ IsSpace(Head(s)) THEN lstrip(Tail(s)) ELSE s

RECURSIVE rstrip(_)
rstrip(s) ==
    IF s # <<>> /\ IsSpace(s[Len(s)]) THEN rstrip(SubSeq(s, 1, Len(s) - 1)) ELSE s

\* str.strip()
strip(s) == rstrip(lstrip(s))

LowerChar(c) ==
    CASE c = "A" -> "a" [] c = "B" -> "b" [] c = "C" -> "c" [] c = "D" -> "d"
      [] c = "X" -> "x" [] OTHER -> c

UpperChar(c) ==
    CASE c = "a" -> "A" [] c = "b" -> "B" [] c = "c" -> "C" [] c = "d" -> "D"
      [] c = "x" -> "X" [] OTHER -> c

\* str.lower(), str.upper()
lower(s) == [i \in 1..Len(s) |-> LowerChar(s[i])]
upper(s) == [i \in 1..Len(s) |-> UpperChar(s[i])]

\* str.startswith(prefix)
startswith(s, prefix) ==
    Len(prefix) <= Len(s) /\ SubSeq(s, 1, Len(prefix)) = prefix

\* ord() of a one-character string
Ord(c) ==
    CASE c = "a" -> 97 [] c = "b" -> 98 [] c = "c" -> 99 [] c = "d" -> 100
      [] c = "x" -> 120
      [] c = "A" -> 65 [] c = "B" -> 66 [] c = "C" -> 67 [] c = "D" -> 68
      [] c = "X" -> 88
      [] c = "_" -> 95 [] c = ")" -> 41 [] c = " " -> 32

\* the characters [a-dA-D] of the pattern
LetterAD == {"a", "b", "c", "d", "A", "B", "C", "D"}

\* re.sub(r"^[a-dA-D]\)", "", s)
re_sub(s) ==
    IF Len(s) >= 2 /\ s[1] \in LetterAD /\ s[2] = ")"
    THEN SubSeq(s, 3, Len(s))
    ELSE s

\* lst[i] of a Python list: a negative i counts from the end
IndexInRange(lst, i) == -Len(lst) <= i /\ i < Len(lst)
PyIndex(lst, i) == IF i >= 0 THEN lst[i + 1] ELSE lst[Len(lst) + i + 1]

\* d[k] = v of a Python dict
Put(d, k, v) == [x \in DOMAIN d \cup {k} |-> IF x = k THEN v ELSE d[x]]

---------------------------------------------------------------------------
(* load_sections_and_modules, load_questions *)

\* A row of the sheet: the four option cells (columns B..E), the answer key
\* (column F), the section (column H) and the module (column I).

\* section -> its modules, over the sections of the sheet
load_sections_and_modules(sheet) ==
    [s \in {sheet[i].section : i \in 1..Len(sheet)} |->
        {sheet[i].module : i \in {j \in 1..Len(sheet) : sheet[j].section = s}}]

\* the option cells that are neither NaN nor empty, in column order
row_options(row) == SelectSeq(row.opts, LAMBDA c : c # NaN /\ c # <<>>)

row_correct_letter(row) ==
    IF row.key # NaN THEN lower(strip(row.key)) ELSE <<>>

\* building the question raises when correct_letter is not empty and either
\* ord(correct_letter) raises TypeError (not one character) or
\* options[...] raises IndexError (out of range)
question_raises(options, correct_letter) ==
    /\ correct_letter # <<>>
    /\ \/ Len(correct_letter) # 1
       \/ ~IndexInRange(options, Ord(correct_letter[1]) - Ord("a"))

correct_answer_of(options, correct_letter) ==
    IF correct_letter # <<>>
    THEN PyIndex(options, Ord(correct_letter[1]) - Ord("a"))
    ELSE <<>>

\* the dictionary of a row, or Raised
Raised == [raised |-> TRUE]
row_question(row) ==
    LET options == row_options(row)
        correct_letter == row_correct_letter(row)
    IN  IF question_raises(options, correct_letter)
        THEN Raised
        ELSE [options        |-> options,
              correct_letter |-> correct_letter,
              correct_answer |-> correct_answer_of(options, correct_letter)]

\* the questions of a section and module; [] when any row of it raises
load_questions(sheet, selected_section, selected_module) ==
    LET module_df == SelectSeq(sheet, LAMBDA r :
                         r.section = selected_section /\ r.module = selected_module)
        questions == [i \in 1..Len(module_df) |-> row_question(module_df[i])]
    IN  IF \E i \in 1..Len(questions) : questions[i] = Raised
        THEN <<>>
        ELSE questions

---------------------------------------------------------------------------
(* is_answer_correct, calculate_score *)

is_answer_correct(question, user_answer) ==
    IF user_answer = NoneStr
    THEN FALSE
    ELSE LET normalized_user_answer == strip(re_sub(user_answer))
             normalized_correct_answer == strip(re_sub(question.correct_answer))
         IN  lower(normalized_user_answer) = lower(normalized_correct_answer)

\* whether calculate_score adds one for question i (0-based)
score_counts(questions, user_answers, i) ==
    /\ i \in DOMAIN user_answers
    /\ startswith(user_answers[i],
                  upper(questions[i + 1].correct_letter) \o <<")">>)

\* the first component of calculate_score's result; the second is len(questions)
calculate_score(questions, user_answers) ==
    Cardinality({i \in 0..(Len(questions) - 1) :
                    score_counts(questions, user_answers, i)})

\* user_answers.get(i)
get_answer(user_answers, i) ==
    IF i \in DOMAIN user_answers THEN user_answers[i] ELSE NoneStr

\* the review of a question raises TypeError at ord(correct_letter), in the
\* loop over its options, unless correct_letter has exactly one character
review_raises(question) ==
    question.options # <<>> /\ Len(question.correct_letter) # 1

\* the 1-based position of the first question whose review raises, or 0
first_raising(questions) ==
    IF \E i \in 1..Len(questions) : review_raises(questions[i])
    THEN CHOOSE i \in 1..Len(questions) :
            /\ review_raises(questions[i])
            /\ \A j \in 1..(i - 1) : ~review_raises(questions[j])
    ELSE 0

\* the Correct / Incorrect headers the review loop writes before it ends
review_marks(questions, user_answers) ==
    LET stop == first_raising(questions)
        shown == IF stop = 0 THEN Len(questions) ELSE stop
    IN  [i \in 1..shown |->
            is_answer_correct(questions[i], get_answer(user_answers, i - 1))]

---------------------------------------------------------------------------
(* st.session_state *)

SessionKeys ==
    {"current_question", "user_answers", "exam_submitted", "exam_started",
     "selected_section", "selected_module", "start_time"}

SessionDefault(k) ==
    CASE k = "current_question" -> 0
      [] k = "user_answers"     -> <<>>
      [] k = "exam_submitted"   -> FALSE
      [] k = "exam_started"     -> FALSE
      [] k = "selected_section" -> None
      [] k = "selected_module"  -> None
      [] k = "start_time"       -> None

\* every key that is missing gets its default; the others are kept
initialize_session_state(ss) ==
    [k \in SessionKeys |-> IF k \in DOMAIN ss THEN ss[k] ELSE SessionDefault(k)]

\* st.session_state.clear()
Cleared == <<>>

---------------------------------------------------------------------------
(* One script run of main() *)

Show(ss, r, pg, exc, warn, corr, mk) ==
    /\ session_state' = ss
    /\ radio' = r
    /\ page' = pg
    /\ exception' = exc
    /\ warning' = warn
    /\ correct' = corr
    /\ marks' = mk
    /\ UNCHANGED df

\* record_selection with the selection filed under the number the page shows
\* for the question (current_question + 1)
record_selection_OffByOne(ss, selected_answer) ==
    IF selected_answer # NoneStr /\ selected_answer # <<>>
    THEN [ss EXCEPT !.user_answers = Put(@, ss.current_question + 1, selected_answer)]
    ELSE ss

\* the radio of the current question: a selection is written to user_answers
record_selection(ss, selected_answer) ==
    IF selected_answer # NoneStr /\ selected_answer # <<>>
    THEN [ss EXCEPT !.user_answers = Put(@, ss.current_question, selected_answer)]
    ELSE ss

\* questions[current_question] raises IndexError out of range
current_raises(questions, current_question) ==
    ~IndexInRange(questions, current_question)

\* the results branch of main(), down to the two buttons
ShowResults(ss, questions) ==
    Show(ss, NoneStr, "results", first_raising(questions) # 0, FALSE,
         calculate_score(questions, ss.user_answers),
         review_marks(questions, ss.user_answers))

\* the exam branch of main() with no button pressed; selected_answer is the
\* value of the radio keyed by the current question
ShowExam(ss, questions, selected_answer, warn) ==
    IF current_raises(questions, ss.current_question)
    THEN Show(ss, NoneStr, "exam", TRUE, FALSE, 0, <<>>)
    ELSE Show(record_selection(ss, selected_answer), selected_answer,
              "exam", FALSE, warn, 0, <<>>)

\* main() from the top, no button pressed: what st.rerun() leads to
Run(ss0, selected_answer) ==
    LET ss == initialize_session_state(ss0)
        questions == load_questions(df, ss.selected_section, ss.selected_module)
    IN  IF ~ss.exam_started
        THEN Show(ss, NoneStr, "home", FALSE, FALSE, 0, <<>>)
        ELSE IF questions = <<>>
        THEN Show(ss, NoneStr, "noquestions", FALSE, FALSE, 0, <<>>)
        ELSE IF ~ss.exam_submitted
        THEN ShowExam(ss, questions, selected_answer, FALSE)
        ELSE ShowResults(ss, questions)

\* the questions of the selection of the session
Questions ==
    load_questions(df, session_state.selected_section,
                   session_state.selected_module)

---------------------------------------------------------------------------
(* The buttons of show_home_page *)

OnHome == page = "home" /\ ~exception

SelectSection(section) ==
    /\ OnHome
    /\ section \in DOMAIN load_sections_and_modules(df)
    /\ Run([session_state EXCEPT !.selected_section = section,
                                 !.selected_module = None,
                                 !.exam_started = FALSE], NoneStr)

SelectModule(module) ==
    /\ OnHome
    /\ session_state.selected_section # None
    /\ module \in load_sections_and_modules(df)[session_state.selected_section]
    /\ Run([session_state EXCEPT !.selected_module = module,
                                 !.exam_started = FALSE], NoneStr)

\* StartExam with the button outside the test of selected_module
StartExam_NoModule ==
    /\ OnHome
    /\ session_state.selected_section # None
    /\ Run([session_state EXCEPT !.exam_started = TRUE,
                                 !.start_time = "now"], NoneStr)

StartExam ==
    /\ OnHome
    /\ session_state.selected_section # None
    /\ session_state.selected_module # None
    /\ Questions # <<>>
    /\ Run([session_state EXCEPT !.exam_started = TRUE,
                                 !.start_time = "now"], NoneStr)

---------------------------------------------------------------------------
(* The widgets of the exam page *)

OnExam == page = "exam" /\ ~exception

\* Previous without the test current_question > 0
Previous_NoLowerBound ==
    /\ OnExam
    /\ Run([session_state EXCEPT !.current_question = @ - 1], NoneStr)

Previous ==
    /\ OnExam
    /\ IF session_state.current_question > 0
       THEN Run([session_state EXCEPT !.current_question = @ - 1], NoneStr)
       ELSE ShowExam(session_state, Questions, radio, FALSE)

NextQuestion ==
    /\ OnExam
    /\ IF session_state.current_question < Len(Questions) - 1
       THEN Run([session_state EXCEPT !.current_question = @ + 1], NoneStr)
       ELSE ShowExam(session_state, Questions, radio, FALSE)

\* a click on an option of the radio that is not the selected one
SelectAnswer(option) ==
    /\ OnExam
    /\ option # radio
    /\ LET options == Questions[session_state.current_question + 1].options
       IN  \E k \in 1..Len(options) : option = options[k]
    /\ ShowExam(session_state, Questions, option, FALSE)

\* the numbered button nav_i; the radio keeps its value only when the
\* question on screen stays the same
Jump(i) ==
    /\ OnExam
    /\ i \in 0..(Len(Questions) - 1)
    /\ Run([record_selection(session_state, radio) EXCEPT !.current_question = i],
           IF i = session_state.current_question THEN radio ELSE NoneStr)

ExitExam ==
    /\ OnExam
    /\ Run(Cleared, NoneStr)

\* SubmitExam without the test of len(user_answers)
SubmitExam_NoCheck ==
    /\ OnExam
    /\ Run([record_selection(session_state, radio) EXCEPT !.exam_submitted = TRUE],
           NoneStr)

SubmitExam ==
    /\ OnExam
    /\ LET ss == record_selection(session_state, radio)
       IN  IF Cardinality(DOMAIN ss.user_answers) < Len(Questions)
           THEN ShowExam(session_state, Questions, radio, TRUE)
           ELSE Run([ss EXCEPT !.exam_submitted = TRUE], NoneStr)

---------------------------------------------------------------------------
(* The buttons of the results page *)

OnResults == page = "results" /\ ~exception

ReturnToHome ==
    /\ OnResults
    /\ Run(Cleared, NoneStr)

\* StartNewExam without the reset of user_answers
StartNewExam_KeepAnswers ==
    /\ OnResults
    /\ Run([session_state EXCEPT !.exam_submitted = FALSE,
                                 !.exam_started = FALSE,
                                 !.current_question = 0], NoneStr)

StartNewExam ==
    /\ OnResults
    /\ Run([session_state EXCEPT !.exam_submitted = FALSE,
                                 !.exam_started = FALSE,
                                 !.user_answers = <<>>,
                                 !.current_question = 0], NoneStr)

---------------------------------------------------------------------------
(* The spreadsheets *)

\* the most rows a sheet of Spec has
MaxRows == 2

\* where a row is filed, <<section, module>>, in the order of the sheet
PlacementOrder == << <<"S1", "M1">>, <<"S1", "M2">>, <<"S2", "M1">> >>
Placements == {PlacementOrder[k] : k \in 1..Len(PlacementOrder)}
Sections == {p[1] : p \in Placements}
Modules == {p[2] : p \in Placements}
Rank(row) ==
    CHOOSE k \in 1..Len(PlacementOrder) :
        PlacementOrder[k] = <<row.section, row.module>>

\* the texts of the option cells
OptionTexts ==
    {<<"x">>, <<"y">>, <<"A", ")", "x">>, <<"b", ")", " ", "y">>}

\* the option cells B..E and the key of the rows of Spec: two rows with a
\* letter for a key, one with an empty key cell, one with a letter and a
\* parenthesis; some option cells are empty
ExamCells ==
    {<< << <<"x">>, <<"y">>, NaN, NaN >>, <<"a">> >>,
     << << NaN, <<"A", ")", "x">>, NaN, <<"y">> >>, <<"B">> >>,
     << << <<"x">>, <<"y">>, NaN, NaN >>, NaN >>,
     << << NaN, <<"y">>, NaN, <<"x">> >>, <<"A", ")">> >>}

ExamRows ==
    {[opts |-> c[1], key |-> c[2], section |-> p[1], module |-> p[2]] :
        c \in ExamCells, p \in Placements}

RECURSIVE SeqsUpTo(_, _)
SeqsUpTo(S, n) ==
    IF n = 0 THEN {<<>>}
    ELSE LET shorter == SeqsUpTo(S, n - 1)
         IN  shorter \cup {Append(s, x) : s \in shorter, x \in S}

\* the sheets of Spec: one to MaxRows rows, listed module after module
Sheets ==
    {sheet \in SeqsUpTo(ExamRows, MaxRows) \ {<<>>} :
        \A i \in 1..(Len(sheet) - 1) : Rank(sheet[i]) <= Rank(sheet[i + 1])}

\* answer keys of SpecCells: the spellings of a letter, other letters, an
\* empty cell, blanks only, characters that are no option letter
KeyCells ==
    {NaN, <<"a">>, <<"A">>, <<" ", "a", " ">>, <<"A", ")">>,
     <<"a", ")", " ", "x">>, <<"b">>, <<"B", ")">>, <<"c">>, <<"d">>,
     <<" ">>, <<"_">>}

\* the one-row sheets of SpecCells: every option cell empty or a text
CellRows ==
    {[opts |-> <<o1, o2, o3, o4>>, key |-> k, section |-> "S1", module |-> "M1"] :
        o1 \in OptionTexts \cup {NaN}, o2 \in OptionTexts \cup {NaN},
        o3 \in OptionTexts \cup {NaN}, o4 \in OptionTexts \cup {NaN},
        k \in KeyCells}

\* the first run of a new session
FirstRun(sheet) ==
    /\ df = sheet
    /\ session_state = initialize_session_state(Cleared)
    /\ radio = NoneStr
    /\ page = "home"
    /\ exception = FALSE
    /\ warning = FALSE
    /\ correct = 0
    /\ marks = <<>>

Init == \E sheet \in Sheets : FirstRun(sheet)

InitCells == \E row \in CellRows : FirstRun(<<row>>)

Next ==
    \/ \E section \in Sections : SelectSection(section)
    \/ \E module \in Modules : SelectModule(module)
    \/ StartExam
    \/ Previous
    \/ NextQuestion
    \/ \E option \in OptionTexts : SelectAnswer(option)
    \/ \E i \in 0..(MaxRows - 1) : Jump(i)
    \/ ExitExam
    \/ SubmitExam
    \/ ReturnToHome
    \/ StartNewExam

\* sessions over sheets of several rows, sections and modules
Spec == Init /\ [][Next]_vars

\* sessions over one row whose cells range over the texts above
SpecCells == InitCells /\ [][Next]_vars

---------------------------------------------------------------------------
(* Properties *)

current_question == session_state.current_question
user_answers == session_state.user_answers
NumQuestions == Len(Questions)
AllAnswered(answers, n) == \A i \in 0..(n - 1) : i \in DOMAIN answers

\* the option letters and the column each names (1 = column B)
OptionLetters == {"a", "b", "c", "d"}
LetterColumn(c) == Ord(c) - Ord("a") + 1

\* the letter a key cell names: alone, or followed by a parenthesis and
\* anything, in either case, blanks around it ignored; "" when it names none
KeyLetter(key) ==
    LET t == IF key = NaN THEN <<>> ELSE lower(strip(key))
    IN  IF t # <<>> /\ t[1] \in OptionLetters /\ (Len(t) = 1 \/ t[2] = ")")
        THEN t[1]
        ELSE ""

\* C1: on the results page the 'Correct Answers' number is the number of
\* questions the review marks Correct, question by question: calculate_score
\* counts question i exactly when is_answer_correct holds of it.
C1_ScoreMatchesReview ==
    (page = "results" /\ ~exception) =>
        /\ correct = Cardinality({i \in 1..Len(marks) : marks[i]})
        /\ \A i \in 0..(NumQuestions - 1) :
              score_counts(Questions, user_answers, i)
                  <=> is_answer_correct(Questions[i + 1], get_answer(user_answers, i))

\* C2: every spelling of the key that names the letter of the row's key gives
\* the question list the row's own spelling gives (the same correct_letter
\* and correct_answer).
C2_SpellingsAgree ==
    \A i \in 1..Len(df) : \A key \in KeyCells :
        (KeyLetter(df[i].key) # "" /\ KeyLetter(key) = KeyLetter(df[i].key)) =>
            load_questions(<<[df[i] EXCEPT !.key = key]>>, df[i].section, df[i].module)
                = load_questions(<<df[i]>>, df[i].section, df[i].module)

\* C3: once the questions of the one-row sheet are on screen, a key letter
\* a..d whose own column is filled has as correct_answer the text of that
\* column, whichever other option cells are empty.
C3_KeyNamesColumn ==
    LET letter == row_correct_letter(df[1])
    IN  (/\ page \in {"exam", "results"}
         /\ Len(df) = 1
         /\ Len(letter) = 1
         /\ letter[1] \in OptionLetters
         /\ df[1].opts[LetterColumn(letter[1])] # NaN) =>
            Questions[1].correct_answer = df[1].opts[LetterColumn(letter[1])]

\* C4: whenever the exam page is rendered current_question is an index of
\* the question list; Previous at index 0 and Next at the last index leave
\* current_question unchanged.
C4_NavigationInRange ==
    /\ [](page = "exam" =>
            /\ ~exception
            /\ 0 <= current_question
            /\ current_question < NumQuestions)
    /\ [][/\ (current_question = 0 /\ Previous) => current_question' = 0
          /\ (current_question = NumQuestions - 1 /\ NextQuestion) =>
                current_question' = current_question]_vars

C4_Witness ==
    /\ page = "exam"
    /\ NumQuestions = MaxRows
    /\ current_question = NumQuestions - 1
    /\ AllAnswered(user_answers, NumQuestions)

\* C5: exam_submitted is true only with an answer recorded for every question
\* index; Submit Exam with fewer recorded answers than questions shows the
\* warning and leaves the session (exam_submitted, user_answers,
\* current_question) as it was.
C5_SubmitGated ==
    /\ [](session_state.exam_submitted =>
            /\ NumQuestions > 0
            /\ DOMAIN user_answers = 0..(NumQuestions - 1))
    /\ [][(page = "exam" /\ Cardinality(DOMAIN user_answers) < NumQuestions
              /\ SubmitExam) =>
            /\ warning'
            /\ page' = "exam"
            /\ session_state' = session_state]_vars

C5_Witness ==
    /\ page = "exam"
    /\ warning
    /\ user_answers # <<>>
    /\ ~AllAnswered(user_answers, NumQuestions)

\* C6: during an exam a recorded answer stays recorded, is one of the options
\* of its own question, is replaced only by a selection made while its
\* question is the current one, and Previous, Next and the numbered buttons
\* change no answer; a selection changes the answer of no other question.
C6_SelectionsKept ==
    /\ [](page = "exam" =>
            \A i \in DOMAIN user_answers :
                /\ i \in 0..(NumQuestions - 1)
                /\ LET options == Questions[i + 1].options
                   IN  \E k \in 1..Len(options) : user_answers[i] = options[k])
    /\ [][(page = "exam" /\ page' = "exam") =>
            /\ \A i \in DOMAIN user_answers :
                  /\ i \in DOMAIN user_answers'
                  /\ user_answers'[i] # user_answers[i] =>
                        /\ i = current_question
                        /\ SelectAnswer(user_answers'[i])
            /\ \/ user_answers' = user_answers
               \/ ~(Previous \/ NextQuestion \/ \E i \in 0..(MaxRows - 1) : Jump(i))
            /\ \A option \in OptionTexts :
                  \/ /\ current_question' = current_question
                     /\ DOMAIN user_answers' = DOMAIN user_answers \cup {current_question}
                     /\ user_answers'[current_question] = option
                     /\ \A j \in DOMAIN user_answers :
                           j # current_question => user_answers'[j] = user_answers[j]
                  \/ ~SelectAnswer(option)]_vars

\* question 0 answered, then question 1 left and come back to: its radio
\* shows nothing and its answer is still recorded
C6_Witness ==
    /\ page = "exam"
    /\ current_question = MaxRows - 1
    /\ radio = NoneStr
    /\ DOMAIN user_answers = 0..(MaxRows - 1)
    /\ user_answers[0] # user_answers[MaxRows - 1]

\* C7: Exit Exam and Return to Home lead to the home page of a fresh session;
\* Start New Exam leads to the home page with the answers, the index and the
\* two flags reset and the section and module kept; the home page and a
\* started exam hold no answer of an earlier attempt.
C7_LeavingResets ==
    [][/\ (ExitExam \/ ReturnToHome) =>
            /\ page' = "home"
            /\ session_state' = initialize_session_state(Cleared)
            /\ radio' = NoneStr
       /\ StartNewExam =>
            /\ page' = "home"
            /\ user_answers' = <<>>
            /\ current_question' = 0
            /\ ~session_state'.exam_started
            /\ ~session_state'.exam_submitted
            /\ radio' = NoneStr
            /\ session_state'.selected_section = session_state.selected_section
            /\ session_state'.selected_module = session_state.selected_module
            /\ session_state.selected_section # None
            /\ session_state.selected_module # None
       /\ page' = "home" =>
            /\ user_answers' = <<>>
            /\ current_question' = 0
            /\ ~session_state'.exam_started
            /\ ~session_state'.exam_submitted
       /\ StartExam =>
            /\ user_answers' = <<>>
            /\ current_question' = 0
            /\ radio' = NoneStr]_vars

\* a second attempt under way after Start New Exam: start_time was set by the
\* first attempt and survived, the module is still selected
C7_Witness ==
    /\ page = "home"
    /\ session_state.start_time # None
    /\ session_state.selected_module # None
    /\ user_answers = <<>>

\* C8: exam_submitted implies exam_started, exam_started implies a selected
\* section and module; the results page is entered only by Submit Exam from
\* the exam page with every question answered, the exam page only by Start
\* Exam from the home page; a section or module button leaves exam_submitted
\* false.
C8_PhaseOrdering ==
    /\ [](/\ session_state.exam_submitted => session_state.exam_started
          /\ session_state.exam_started =>
                /\ session_state.selected_section # None
                /\ session_state.selected_module # None
          /\ page \in {"home", "exam", "results"}
          /\ page = "results" <=> session_state.exam_submitted
          /\ page = "home" <=> ~session_state.exam_started
          /\ page = "results" => AllAnswered(user_answers, NumQuestions))
    /\ [][/\ (page' = "results" /\ page # "results") =>
                (page = "exam" /\ SubmitExam)
          /\ (page' = "exam" /\ page # "exam") =>
                /\ page = "home"
                /\ session_state.selected_section # None
                /\ session_state.selected_module # None
                /\ StartExam
          /\ (page = "home" /\
                ((\E section \in Sections : SelectSection(section))
                    \/ (\E module \in Modules : SelectModule(module)))) =>
                /\ page' = "home"
                /\ ~session_state'.exam_submitted
                /\ ~session_state'.exam_started]_vars

C8_Witness ==
    /\ page = "results"
    /\ ~exception
    /\ session_state.exam_submitted
    /\ NumQuestions = MaxRows

\* C9: every question of a loaded list has a one-letter correct_letter whose
\* index is an index of its options, and the results page of a submitted
\* exam renders to the end.
C9_ResultsRender ==
    page = "results" =>
        /\ ~exception
        /\ \A i \in 1..NumQuestions :
              LET letter == Questions[i].correct_letter
              IN  /\ Len(letter) = 1
                  /\ 0 <= Ord(letter[1]) - Ord("a")
                  /\ Ord(letter[1]) - Ord("a") < Len(Questions[i].options)

=============================================================================
